---- MODULE Spec2Model ----
(***************************************************************************)
(* Model of the configuration optimizers of scripts/claude:                *)
(*   claude_optimizer_secure.py  (remove_sensitive_data, clean_projects,   *)
(*                                optimize_config)                         *)
(*   claude_optimizer.py         (clean_projects, optimize_config)         *)
(*                                                                         *)
(* Python strings are sequences of one-character strings (a character    *)
(* outside ASCII is written by its code point, "U+1F6A8").  JSON values are *)
(* records [t, v]: scalars carry their value, containers ("map", "list")   *)
(* live in a heap and are referred to by [t |-> "ref", v |-> address], so  *)
(* that aliasing and in-place mutation are visible.                        *)
(***************************************************************************)
EXTENDS Integers, Sequences, FiniteSets

(* ------------------------------------------------------------------ *)
(* Bounds of the explored inputs                                        *)
(* ------------------------------------------------------------------ *)
MaxHist == 3
MaxArgs == 4

(* ------------------------------------------------------------------ *)
(* Literals of the source                                               *)
(* ------------------------------------------------------------------ *)
GHP == <<"g", "h", "p", "_">>
TokenBodyLen == 36
PLACEHOLDER == <<"[", "G", "I", "T", "H", "U", "B", "_", "T", "O", "K", "E", "N", "_", "R", "E", "M", "O", "V", "E", "D", "]">>
\* the prefix without its closing slash
WSL_PREFIX_NoSlash == <<"/", "m", "n", "t", "/", "c">>
WSL_PREFIX == <<"/", "m", "n", "t", "/", "c", "/">>
GITHUB_PERSONAL_ACCESS_TOKEN == <<"G", "I", "T", "H", "U", "B", "_", "P", "E", "R", "S", "O", "N", "A", "L", "_", "A", "C", "C", "E", "S", "S", "_", "T", "O", "K", "E", "N">>
K_token == <<"t", "o", "k", "e", "n">>
K_secret == <<"s", "e", "c", "r", "e", "t">>
K_key == <<"k", "e", "y">>
K_password == <<"p", "a", "s", "s", "w", "o", "r", "d">>
K_auth == <<"a", "u", "t", "h">>
K_github == <<"g", "i", "t", "h", "u", "b">>
K_history == <<"h", "i", "s", "t", "o", "r", "y">>
K_display == <<"d", "i", "s", "p", "l", "a", "y">>
K_mcpServers == <<"m", "c", "p", "S", "e", "r", "v", "e", "r", "s">>
K_args == <<"a", "r", "g", "s">>
K_projects == <<"p", "r", "o", "j", "e", "c", "t", "s">>
K_filesystem == <<"f", "i", "l", "e", "s", "y", "s", "t", "e", "m">>
MSG_REMOVED == <<"U+1F6A8", " ", "R", "E", "M", "O", "V", "E", "D", " ", "S", "E", "N", "S", "I", "T", "I", "V", "E", " ", "D", "A", "T", "A", ":", " ">>
MSG_EQ == <<" ", "=", " ">>
MSG_DOTS == <<".", ".", ".">>
MSG_FOUND == <<"U+1F6A8", " ", "F", "O", "U", "N", "D", " ", "G", "I", "T", "H", "U", "B", " ", "T", "O", "K", "E", "N", " ", "I", "N", " ", "S", "T", "R", "I", "N", "G", " ", "C", "O", "N", "T", "E", "N", "T", " ", "-", " ", "R", "e", "m", "o", "v", "i", "n", "g">>
MSG_WSL == <<"R", "e", "m", "o", "v", "i", "n", "g", " ", "W", "S", "L", " ", "p", "a", "t", "h", ":", " ">>
MSG_MCP == <<"C", "l", "e", "a", "n", "e", "d", " ", "W", "S", "L", " ", "p", "a", "t", "h", "s", " ", "f", "r", "o", "m", " ", "M", "C", "P", " ", "s", "e", "r", "v", "e", "r", " ">>
MSG_SEC == <<"U+1F512", " ", "R", "e", "m", "o", "v", "i", "n", "g", " ", "s", "e", "n", "s", "i", "t", "i", "v", "e", " ", "d", "a", "t", "a", ".", ".", ".">>
MSG_PROJ == <<"U+1F4C1", " ", "C", "l", "e", "a", "n", "i", "n", "g", " ", "p", "r", "o", "j", "e", "c", "t", "s", ".", ".", ".">>
linux_paths == << <<"/", "h", "o", "m", "e", "/", "d", "t", "a", "y", "l", "o", "r", "/", "D", "e", "s", "k", "t", "o", "p">>,
                  <<"/", "h", "o", "m", "e", "/", "d", "t", "a", "y", "l", "o", "r", "/", "D", "o", "w", "n", "l", "o", "a", "d", "s">>,
                  <<"/", "h", "o", "m", "e", "/", "d", "t", "a", "y", "l", "o", "r", "/", "G", "i", "t", "H", "u", "b">>,
                  <<"/", "h", "o", "m", "e", "/", "d", "t", "a", "y", "l", "o", "r", "/", "D", "o", "c", "u", "m", "e", "n", "t", "s">> >>
SliceLen == 10
MinDisplayLen == 3
KeepArgs == 2

(* ------------------------------------------------------------------ *)
(* Python str operations                                                *)
(* ------------------------------------------------------------------ *)
Upper == <<"A", "B", "C", "D", "E", "F", "G", "H", "I", "J", "K", "L", "M", "N", "O", "P", "Q", "R", "S", "T", "U", "V", "W", "X", "Y", "Z">>
LowerOf == <<"a", "b", "c", "d", "e", "f", "g", "h", "i", "j", "k", "l", "m", "n", "o", "p", "q", "r", "s", "t", "u", "v", "w", "x", "y", "z">>
Digits == <<"0", "1", "2", "3", "4", "5", "6", "7", "8", "9">>
Whitespace == {" ", "\t", "\n", "\r"}

Range(s) == {s[i] : i \in 1..Len(s)}

\* the character class [a-zA-Z0-9]
Alnum == Range(Upper) \cup Range(LowerOf) \cup Range(Digits)

LowerChar(c) == IF c \in Range(Upper) THEN LowerOf[CHOOSE i \in 1..Len(Upper) : Upper[i] = c] ELSE c

\* str.lower()
Lower(s) == [i \in 1..Len(s) |-> LowerChar(s[i])]

\* s[:n]
Take(s, n) == IF Len(s) <= n THEN s ELSE SubSeq(s, 1, n)

\* sub in s
Contains(s, sub) == \E i \in 1..(Len(s) - Len(sub) + 1) : SubSeq(s, i, i + Len(sub) - 1) = sub

\* s.startswith(p)
StartsWith(s, p) == Len(s) >= Len(p) /\ SubSeq(s, 1, Len(p)) = p

\* s.strip()
Strip(s) ==
  LET keep == {i \in 1..Len(s) : s[i] \notin Whitespace}
  IN IF keep = {} THEN <<>>
     ELSE SubSeq(s, CHOOSE i \in keep : \A j \in keep : i <= j,
                    CHOOSE i \in keep : \A j \in keep : i >= j)

\* the pattern r'ghp_[a-zA-Z0-9]{36}' matches s at position i
MatchAt(s, i) ==
  /\ i + Len(GHP) + TokenBodyLen - 1 <= Len(s)
  /\ SubSeq(s, i, i + Len(GHP) - 1) = GHP
  /\ \A j \in 0..(TokenBodyLen - 1) : s[i + Len(GHP) + j] \in Alnum

\* re.search(pattern, s) is not None
re_search(s) == \E i \in 1..Len(s) : MatchAt(s, i)

\* re.sub(pattern, placeholder, s): leftmost non-overlapping matches
RECURSIVE re_sub_from(_, _)
re_sub_from(s, i) ==
  IF i > Len(s) THEN <<>>
  ELSE IF MatchAt(s, i) THEN PLACEHOLDER \o re_sub_from(s, i + Len(GHP) + TokenBodyLen)
  ELSE <<s[i]>> \o re_sub_from(s, i + 1)

\* a substitution that stops after the first match (count=1)
re_sub_once(s) ==
  IF re_search(s)
  THEN LET i == CHOOSE k \in 1..Len(s) : MatchAt(s, k) /\ \A m \in 1..(k - 1) : ~MatchAt(s, m)
       IN SubSeq(s, 1, i - 1) \o PLACEHOLDER \o SubSeq(s, i + Len(GHP) + TokenBodyLen, Len(s))
  ELSE s

re_sub(s) == re_sub_from(s, 1)

(* ------------------------------------------------------------------ *)
(* JSON values, the heap of dict and list objects                       *)
(* ------------------------------------------------------------------ *)
Str(s) == [t |-> "str", v |-> s]
Num(n) == [t |-> "num", v |-> n]
Bool(b) == [t |-> "bool", v |-> b]
Null == [t |-> "null", v |-> 0]
Ref(a) == [t |-> "ref", v |-> a]
\* values as trees (what json.load reads and json.dump writes)
Map(items) == [t |-> "map", v |-> items]
List(xs) == [t |-> "list", v |-> xs]
Item(key, x) == [k |-> key, x |-> x]

IsDict(h, x) == x.t = "ref" /\ h[x.v].t = "map"
IsList(h, x) == x.t = "ref" /\ h[x.v].t = "list"

\* the tree a value denotes in heap h
RECURSIVE Tree(_, _)
Tree(h, x) ==
  IF x.t # "ref" THEN x
  ELSE LET o == h[x.v]
       IN IF o.t = "map"
          THEN Map([i \in 1..Len(o.v) |-> Item(o.v[i].k, Tree(h, o.v[i].x))])
          ELSE List([i \in 1..Len(o.v) |-> Tree(h, o.v[i])])

\* the container objects reachable from a value
RECURSIVE Reach(_, _)
Reach(h, x) ==
  IF x.t # "ref" THEN {}
  ELSE LET o == h[x.v]
       IN {x.v} \cup UNION {Reach(h, IF o.t = "map" THEN o.v[i].x ELSE o.v[i]) : i \in 1..Len(o.v)}

\* json.load: every container of the document becomes a fresh object
RECURSIVE Store(_, _)
RECURSIVE StoreAll(_, _, _, _)
StoreAll(h, xs, i, acc) ==
  IF i > Len(xs) THEN [h |-> h, r |-> acc]
  ELSE LET s == Store(h, xs[i]) IN StoreAll(s.h, xs, i + 1, Append(acc, s.r))

Store(h, tree) ==
  IF tree.t = "map"
  THEN LET s == StoreAll(h, [i \in 1..Len(tree.v) |-> tree.v[i].x], 1, <<>>)
       IN [h |-> Append(s.h, Map([i \in 1..Len(tree.v) |-> Item(tree.v[i].k, s.r[i])])),
           r |-> Ref(Len(s.h) + 1)]
  ELSE IF tree.t = "list"
  THEN LET s == StoreAll(h, tree.v, 1, <<>>)
       IN [h |-> Append(s.h, List(s.r)), r |-> Ref(Len(s.h) + 1)]
  ELSE [h |-> h, r |-> tree]

\* key in d, d[key], d[key] = x for a dict object (a sequence of items in insertion order)
DictHas(items, key) == \E i \in 1..Len(items) : items[i].k = key
DictGet(items, key) == items[CHOOSE i \in 1..Len(items) : items[i].k = key].x
DictSet(items, key, x) ==
  IF DictHas(items, key)
  THEN [i \in 1..Len(items) |-> IF items[i].k = key THEN Item(key, x) ELSE items[i]]
  ELSE Append(items, Item(key, x))

\* bool(x)
Truthy(h, x) ==
  CASE x.t = "str" -> x.v # <<>>
    [] x.t = "num" -> x.v # 0
    [] x.t = "bool" -> x.v
    [] x.t = "null" -> FALSE
    [] x.t = "ref" -> h[x.v].v # <<>>

RECURSIVE DecStr(_)
DecStr(n) == IF n < 10 THEN <<Digits[n + 1]>> ELSE DecStr(n \div 10) \o <<Digits[(n % 10) + 1]>>

\* repr(x) and str(x), for strings without quotes, backslashes or control characters
RECURSIVE PyRepr(_, _)
RECURSIVE JoinRepr(_, _, _, _)
JoinRepr(h, o, i, acc) ==
  IF i > Len(o.v) THEN acc
  ELSE LET sep == IF i = 1 THEN <<>> ELSE <<",", " ">>
           one == IF o.t = "map"
                  THEN PyRepr(h, Str(o.v[i].k)) \o <<":", " ">> \o PyRepr(h, o.v[i].x)
                  ELSE PyRepr(h, o.v[i])
       IN JoinRepr(h, o, i + 1, acc \o sep \o one)

PyRepr(h, x) ==
  CASE x.t = "str" -> <<"'">> \o x.v \o <<"'">>
    [] x.t = "num" -> DecStr(x.v)
    [] x.t = "bool" -> IF x.v THEN <<"T", "r", "u", "e">> ELSE <<"F", "a", "l", "s", "e">>
    [] x.t = "null" -> <<"N", "o", "n", "e">>
    [] x.t = "ref" -> IF h[x.v].t = "map"
                      THEN <<"{">> \o JoinRepr(h, h[x.v], 1, <<>>) \o <<"}">>
                      ELSE <<"[">> \o JoinRepr(h, h[x.v], 1, <<>>) \o <<"]">>

PyStr(h, x) == IF x.t = "str" THEN x.v ELSE PyRepr(h, x)

(* ------------------------------------------------------------------ *)
(* Execution context: heap, printed lines, pending exception, value     *)
(* ------------------------------------------------------------------ *)
Ctx(h, log) == [h |-> h, log |-> log, err |-> "none", r |-> Null]
Ok(c) == c.err = "none"
Raise(c, e) == [c EXCEPT !.err = e, !.r = Null]
Return(c, x) == [c EXCEPT !.r = x]
py_print(c, line) == [c EXCEPT !.log = Append(@, line)]
\* a new dict or list object
Alloc(c, o) == [c EXCEPT !.h = Append(@, o), !.r = Ref(Len(c.h) + 1)]

\* "for e in x": the elements a value yields when iterated, and whether it can be iterated
Iterable(h, x) == x.t = "str" \/ x.t = "ref"
Iter(h, x) ==
  IF x.t = "str" THEN [i \in 1..Len(x.v) |-> Str(<<x.v[i]>>)]
  ELSE IF h[x.v].t = "map" THEN [i \in 1..Len(h[x.v].v) |-> Str(h[x.v].v[i].k)]
  ELSE h[x.v].v

\* "name in x" for a str name; defined when Iterable(h, x)
InTest(h, x, name) ==
  IF x.t = "str" THEN Contains(x.v, name)
  ELSE IF h[x.v].t = "map" THEN DictHas(h[x.v].v, name)
  ELSE \E i \in 1..Len(h[x.v].v) : h[x.v].v[i] = Str(name)

\* d[key] = x on the dict object at address a, in place
SetItem(c, a, key, x) == [c EXCEPT !.h[a].v = DictSet(@, key, x)]

(* ------------------------------------------------------------------ *)
(* claude_optimizer_secure.py: remove_sensitive_data                    *)
(* ------------------------------------------------------------------ *)
\* any(sensitive in key.lower() for sensitive in [...])
IsSensitiveName(key) ==
  \E f \in {K_token, K_secret, K_key, K_password, K_auth} : Contains(Lower(key), f)

\* the key is dropped and reported together with value[:10]
DropsWithValue(key) == IsSensitiveName(key) /\ key = GITHUB_PERSONAL_ACCESS_TOKEN

\* the key is dropped and reported by its name only
DropsKeyOnly(key) ==
  /\ IsSensitiveName(key)
  /\ key # GITHUB_PERSONAL_ACCESS_TOKEN
  /\ Contains(Lower(key), K_github) /\ Contains(Lower(key), K_token)

\* value[:10] is defined for str and list; int, bool and None are not subscriptable
\* and a dict rejects a slice as key
Sliceable(h, value) == value.t = "str" \/ IsList(h, value)

\* f"{value[:10]}"
SliceText(h, value) ==
  IF value.t = "str" THEN Take(value.v, SliceLen)
  ELSE LET tmp == Append(h, List(Take(h[value.v].v, SliceLen)))
       IN PyRepr(tmp, Ref(Len(tmp)))

RemovedLine(h, key, value) == MSG_REMOVED \o key \o MSG_EQ \o SliceText(h, value) \o MSG_DOTS

RECURSIVE remove_sensitive_data(_, _)
RECURSIVE rsd_items(_, _, _, _)
RECURSIVE rsd_list(_, _, _, _)
RECURSIVE rsd_items_put(_, _, _, _)
RECURSIVE rsd_list_put(_, _, _, _)

\* cleaned[key] = remove_sensitive_data(value)
rsd_items_put(d, items, i, cleaned) ==
  rsd_items(d, items, i + 1, Append(cleaned, Item(items[i].k, d.r)))

\* one element of the list comprehension
rsd_list_put(d, xs, i, cleaned) == rsd_list(d, xs, i + 1, Append(cleaned, d.r))

\* for key, value in data.items(): ... ; return cleaned
rsd_items(c, items, i, cleaned) ==
  IF ~Ok(c) THEN c
  ELSE IF i > Len(items) THEN Alloc(c, Map(cleaned))
  ELSE LET key == items[i].k
           value == items[i].x
       IN IF DropsWithValue(key)
          THEN IF Sliceable(c.h, value)
               THEN rsd_items(py_print(c, RemovedLine(c.h, key, value)), items, i + 1, cleaned)
               ELSE Raise(c, "TypeError")
          ELSE IF DropsKeyOnly(key)
          THEN rsd_items(py_print(c, MSG_REMOVED \o key), items, i + 1, cleaned)
          ELSE rsd_items_put(remove_sensitive_data(c, value), items, i, cleaned)

\* [remove_sensitive_data(item) for item in data]
rsd_list(c, xs, i, cleaned) ==
  IF ~Ok(c) THEN c
  ELSE IF i > Len(xs) THEN Alloc(c, List(cleaned))
  ELSE rsd_list_put(remove_sensitive_data(c, xs[i]), xs, i, cleaned)

\* the str branch
rsd_str(c, data) ==
  IF re_search(data.v)
  THEN Return(py_print(c, MSG_FOUND), Str(re_sub(data.v)))
  ELSE Return(c, data)

\* a sanitizer that hands back its argument instead of building a new tree
remove_sensitive_data_alias(c, data) == Return(c, data)

remove_sensitive_data(c, data) ==
  IF IsDict(c.h, data) THEN rsd_items(c, c.h[data.v].v, 1, <<>>)
  ELSE IF IsList(c.h, data) THEN rsd_list(c, c.h[data.v].v, 1, <<>>)
  ELSE IF data.t = "str" THEN rsd_str(c, data)
  ELSE Return(c, data)

(* ------------------------------------------------------------------ *)
(* claude_optimizer_secure.py: clean_projects                           *)
(* ------------------------------------------------------------------ *)
\* entry.get('display', '')
DisplayOf(h, entry) ==
  IF DictHas(h[entry.v].v, K_display) THEN DictGet(h[entry.v].v, K_display) ELSE Str(<<>>)

\* a test that only rejects displays that are empty after stripping
TooShort_OnlyEmpty(display) == Len(Strip(display.v)) < 1

\* len(display.strip()) < 3
TooShort(display) == Len(Strip(display.v)) < MinDisplayLen

\* a loop that never consults seen_displays
AlreadySeen_Never(display, seen_displays) == FALSE

\* a test that ignores letter case
AlreadySeen_IgnoreCase(display, seen_displays) ==
  \E s \in seen_displays : Lower(s) = Lower(display.v)

\* display in seen_displays
AlreadySeen(display, seen_displays) == display.v \in seen_displays

\* for entry in history: ... ; the result is cleaned_history
RECURSIVE cp_history(_, _, _, _, _)
RECURSIVE cp_history_entry(_, _, _, _, _, _)
RECURSIVE cp_history_append(_, _, _, _, _)

cp_history(c, entries, j, seen_displays, cleaned_history) ==
  IF ~Ok(c) THEN c
  ELSE IF j > Len(entries) THEN Alloc(c, List(cleaned_history))
  ELSE IF ~IsDict(c.h, entries[j]) THEN Raise(c, "AttributeError")
  ELSE cp_history_entry(c, entries, j, seen_displays, cleaned_history, DisplayOf(c.h, entries[j]))

\* the tests on display
cp_history_entry(c, entries, j, seen_displays, cleaned_history, display) ==
  IF ~Truthy(c.h, display)
  THEN cp_history(c, entries, j + 1, seen_displays, cleaned_history)
  ELSE IF display.t # "str" THEN Raise(c, "AttributeError")
  ELSE IF TooShort(display) \/ AlreadySeen(display, seen_displays)
  THEN cp_history(c, entries, j + 1, seen_displays, cleaned_history)
  ELSE cp_history_append(remove_sensitive_data(c, entries[j]), entries, j,
                         seen_displays \cup {display.v}, cleaned_history)

\* cleaned_history.append(cleaned_entry)
cp_history_append(d, entries, j, seen_displays, cleaned_history) ==
  cp_history(d, entries, j + 1, seen_displays, Append(cleaned_history, d.r))

\* not str(arg).startswith('/mnt/c/')
KeepsArg(h, arg) == ~StartsWith(PyStr(h, arg), WSL_PREFIX)

\* server_name == 'filesystem' and cleaned_args
AppendsLinuxPaths(server_name, cleaned_args) == server_name = K_filesystem /\ cleaned_args # <<>>

\* a tail that is appended whole, the first two arguments not being singled out
FilesystemArgs_NoTruncation(cleaned_args) ==
  cleaned_args \o [i \in 1..Len(linux_paths) |-> Str(linux_paths[i])]

\* cleaned_args[:2] + linux_paths if len(cleaned_args) > 2 else cleaned_args + linux_paths
FilesystemArgs(cleaned_args) ==
  IF Len(cleaned_args) > KeepArgs
  THEN Take(cleaned_args, KeepArgs) \o [i \in 1..Len(linux_paths) |-> Str(linux_paths[i])]
  ELSE cleaned_args \o [i \in 1..Len(linux_paths) |-> Str(linux_paths[i])]

\* d[key] = <a new list or dict o> on the dict object at address a
AssignNew(c, a, key, o) ==
  [c EXCEPT !.h = Append([c.h EXCEPT ![a].v = DictSet(@, key, Ref(Len(c.h) + 1))], o)]

\* if server_name == 'filesystem' and cleaned_args: cleaned_server_config['args'] = ...
cp_args_filesystem(c, server_name, a, cleaned_args) ==
  IF AppendsLinuxPaths(server_name, cleaned_args)
  THEN AssignNew(c, a, K_args, List(FilesystemArgs(cleaned_args)))
  ELSE c

\* if len(cleaned_args) != len(cleaned_server_config['args']): ...
cp_args_filtered(c, server_name, a, elems, cleaned_args) ==
  cp_args_filesystem(IF Len(cleaned_args) # Len(elems)
                     THEN AssignNew(py_print(c, MSG_MCP \o server_name), a, K_args, List(cleaned_args))
                     ELSE c,
                     server_name, a, cleaned_args)

\* cleaned_args = [arg for arg in cleaned_server_config['args'] if ...]
cp_args_iter(c, server_name, a, args) ==
  IF ~Iterable(c.h, args) THEN Raise(c, "TypeError")
  ELSE Return(cp_args_filtered(c, server_name, a, Iter(c.h, args),
                               SelectSeq(Iter(c.h, args), LAMBDA arg : KeepsArg(c.h, arg))),
              Ref(a))

\* the body of "if 'args' in cleaned_server_config"; the result is cleaned_server_config
cp_args(c, server_name, cleaned_server_config) ==
  IF ~Iterable(c.h, cleaned_server_config) THEN Raise(c, "TypeError")
  ELSE IF ~InTest(c.h, cleaned_server_config, K_args) THEN Return(c, cleaned_server_config)
  ELSE IF ~IsDict(c.h, cleaned_server_config) THEN Raise(c, "TypeError")
  ELSE cp_args_iter(c, server_name, cleaned_server_config.v,
                    DictGet(c.h[cleaned_server_config.v].v, K_args))

\* cleaned_server_config = remove_sensitive_data(server_config), then its args
cp_server(d, server_name) == IF Ok(d) THEN cp_args(d, server_name, d.r) ELSE d

\* for server_name, server_config in cleaned_config['mcpServers'].items(): ...
RECURSIVE cp_servers(_, _, _, _)
RECURSIVE cp_servers_put(_, _, _, _)
cp_servers(c, sitems, k, cleaned_mcp_servers) ==
  IF ~Ok(c) THEN c
  ELSE IF k > Len(sitems) THEN Alloc(c, Map(cleaned_mcp_servers))
  ELSE cp_servers_put(cp_server(remove_sensitive_data(c, sitems[k].x), sitems[k].k),
                      sitems, k, cleaned_mcp_servers)

\* cleaned_mcp_servers[server_name] = cleaned_server_config
cp_servers_put(e, sitems, k, cleaned_mcp_servers) ==
  cp_servers(e, sitems, k + 1, Append(cleaned_mcp_servers, Item(sitems[k].k, e.r)))

\* cleaned_config['mcpServers'] = cleaned_mcp_servers; the result is cleaned_config
cp_config_assign(sv, a) ==
  IF Ok(sv) THEN Return(SetItem(sv, a, K_mcpServers, sv.r), Ref(a)) ELSE sv

\* if 'mcpServers' in cleaned_config: ...
cp_config_servers(cc) ==
  IF ~DictHas(cc.h[cc.r.v].v, K_mcpServers) THEN cc
  ELSE IF ~IsDict(cc.h, DictGet(cc.h[cc.r.v].v, K_mcpServers)) THEN Raise(cc, "AttributeError")
  ELSE cp_config_assign(cp_servers(cc, cc.h[DictGet(cc.h[cc.r.v].v, K_mcpServers).v].v, 1, <<>>),
                        cc.r.v)

\* cleaned_config = config.copy(); cleaned_config['history'] = cleaned_history
cp_config_copy(hl, citems) ==
  IF ~Ok(hl) THEN hl
  ELSE cp_config_servers(Alloc(hl, Map(DictSet(citems, K_history, hl.r))))

\* config.get('history', []), iterated
HistoryEntries(h, citems) ==
  IF DictHas(citems, K_history) THEN Iter(h, DictGet(citems, K_history)) ELSE <<>>

\* the loop body for one surviving project; the result is cleaned_config
cp_config(c, config) ==
  IF ~IsDict(c.h, config) THEN Raise(c, "AttributeError")
  ELSE IF /\ DictHas(c.h[config.v].v, K_history)
          /\ ~Iterable(c.h, DictGet(c.h[config.v].v, K_history))
  THEN Raise(c, "TypeError")
  ELSE cp_config_copy(cp_history(c, HistoryEntries(c.h, c.h[config.v].v), 1, {}, <<>>),
                      c.h[config.v].v)

\* for project_path, config in projects.items(): ...
RECURSIVE cp_projects(_, _, _, _)
RECURSIVE cp_projects_put(_, _, _, _)
cp_projects(c, pitems, i, cleaned_projects) ==
  IF ~Ok(c) THEN c
  ELSE IF i > Len(pitems) THEN Alloc(c, Map(cleaned_projects))
  ELSE IF StartsWith(pitems[i].k, WSL_PREFIX)
  THEN cp_projects(py_print(c, MSG_WSL \o pitems[i].k), pitems, i + 1, cleaned_projects)
  ELSE cp_projects_put(cp_config(c, pitems[i].x), pitems, i, cleaned_projects)

\* cleaned_projects[project_path] = cleaned_config
cp_projects_put(e, pitems, i, cleaned_projects) ==
  cp_projects(e, pitems, i + 1, Append(cleaned_projects, Item(pitems[i].k, e.r)))

clean_projects(c, projects) ==
  IF ~IsDict(c.h, projects) THEN Raise(c, "AttributeError")
  ELSE cp_projects(c, c.h[projects.v].v, 1, <<>>)

(* ------------------------------------------------------------------ *)
(* claude_optimizer_secure.py: optimize_config                          *)
(* ------------------------------------------------------------------ *)
\* optimized['projects'] = clean_projects(optimized['projects']); return optimized
oc_assign(p, optimized) ==
  IF Ok(p) THEN Return(SetItem(p, optimized.v, K_projects, p.r), optimized) ELSE p

\* if 'projects' in optimized: ...
oc_projects(o) ==
  IF ~Ok(o) THEN o
  ELSE IF ~Iterable(o.h, o.r) THEN Raise(o, "TypeError")
  ELSE IF ~InTest(o.h, o.r, K_projects) THEN o
  ELSE IF ~IsDict(o.h, o.r) THEN Raise(py_print(o, MSG_PROJ), "TypeError")
  ELSE oc_assign(clean_projects(py_print(o, MSG_PROJ), DictGet(o.h[o.r.v].v, K_projects)), o.r)

\* the two steps in the other order: the projects of a shallow copy are cleaned first and
\* the whole document is redacted afterwards
optimize_config_CleanFirst(c, config) ==
  IF config.t # "ref" THEN Raise(py_print(c, MSG_SEC), "AttributeError")
  ELSE IF Ok(oc_projects(Alloc(py_print(c, MSG_SEC), c.h[config.v])))
  THEN remove_sensitive_data(oc_projects(Alloc(py_print(c, MSG_SEC), c.h[config.v])),
                             oc_projects(Alloc(py_print(c, MSG_SEC), c.h[config.v])).r)
  ELSE oc_projects(Alloc(py_print(c, MSG_SEC), c.h[config.v]))

\* optimized = remove_sensitive_data(config), then the projects of optimized are cleaned
optimize_config(c, config) == oc_projects(remove_sensitive_data(py_print(c, MSG_SEC), config))

(* ------------------------------------------------------------------ *)
(* claude_optimizer.py: clean_projects and optimize_config              *)
(* ------------------------------------------------------------------ *)
\* for entry in history: ... cleaned_history.append(entry)
RECURSIVE basic_cp_history(_, _, _, _, _)
RECURSIVE basic_cp_history_entry(_, _, _, _, _, _)

basic_cp_history(c, entries, j, seen_displays, cleaned_history) ==
  IF j > Len(entries) THEN Alloc(c, List(cleaned_history))
  ELSE IF ~IsDict(c.h, entries[j]) THEN Raise(c, "AttributeError")
  ELSE basic_cp_history_entry(c, entries, j, seen_displays, cleaned_history, DisplayOf(c.h, entries[j]))

basic_cp_history_entry(c, entries, j, seen_displays, cleaned_history, display) ==
  IF ~Truthy(c.h, display)
  THEN basic_cp_history(c, entries, j + 1, seen_displays, cleaned_history)
  ELSE IF display.t # "str" THEN Raise(c, "AttributeError")
  ELSE IF TooShort(display) \/ AlreadySeen(display, seen_displays)
  THEN basic_cp_history(c, entries, j + 1, seen_displays, cleaned_history)
  ELSE basic_cp_history(c, entries, j + 1, seen_displays \cup {display.v},
                        Append(cleaned_history, entries[j]))

\* if len(cleaned_args) != len(server_config['args']): server_config['args'] = cleaned_args
basic_cp_args_filtered(c, server_name, a, elems, cleaned_args) ==
  IF Len(cleaned_args) # Len(elems)
  THEN AssignNew(py_print(c, MSG_MCP \o server_name), a, K_args, List(cleaned_args))
  ELSE c

\* the body of "if 'args' in server_config": server_config is the object of the argument
basic_cp_args(c, server_name, server_config) ==
  IF ~Iterable(c.h, server_config) THEN Raise(c, "TypeError")
  ELSE IF ~InTest(c.h, server_config, K_args) THEN c
  ELSE IF ~IsDict(c.h, server_config) THEN Raise(c, "TypeError")
  ELSE IF ~Iterable(c.h, DictGet(c.h[server_config.v].v, K_args)) THEN Raise(c, "TypeError")
  ELSE basic_cp_args_filtered(c, server_name, server_config.v,
                              Iter(c.h, DictGet(c.h[server_config.v].v, K_args)),
                              SelectSeq(Iter(c.h, DictGet(c.h[server_config.v].v, K_args)),
                                        LAMBDA arg : KeepsArg(c.h, arg)))

\* for server_name, server_config in list(cleaned_config['mcpServers'].items()): ...
RECURSIVE basic_cp_servers(_, _, _)
basic_cp_servers(c, sitems, k) ==
  IF ~Ok(c) \/ k > Len(sitems) THEN c
  ELSE basic_cp_servers(basic_cp_args(c, sitems[k].k, sitems[k].x), sitems, k + 1)

\* if 'mcpServers' in cleaned_config: ... ; the result is cleaned_config
basic_cp_config_servers(cc) ==
  IF ~DictHas(cc.h[cc.r.v].v, K_mcpServers) THEN cc
  ELSE IF ~IsDict(cc.h, DictGet(cc.h[cc.r.v].v, K_mcpServers)) THEN Raise(cc, "AttributeError")
  ELSE basic_cp_servers(cc, cc.h[DictGet(cc.h[cc.r.v].v, K_mcpServers).v].v, 1)

\* cleaned_config = config.copy(); cleaned_config['history'] = cleaned_history
basic_cp_config_copy(hl, citems) ==
  IF ~Ok(hl) THEN hl
  ELSE basic_cp_config_servers(Alloc(hl, Map(DictSet(citems, K_history, hl.r))))

\* the loop body for one surviving project; the result is cleaned_config
basic_cp_config(c, config) ==
  IF ~IsDict(c.h, config) THEN Raise(c, "AttributeError")
  ELSE IF /\ DictHas(c.h[config.v].v, K_history)
          /\ ~Iterable(c.h, DictGet(c.h[config.v].v, K_history))
  THEN Raise(c, "TypeError")
  ELSE basic_cp_config_copy(basic_cp_history(c, HistoryEntries(c.h, c.h[config.v].v), 1, {}, <<>>),
                            c.h[config.v].v)

\* for project_path, config in projects.items(): ...
RECURSIVE basic_cp_projects(_, _, _, _)
RECURSIVE basic_cp_projects_put(_, _, _, _)
basic_cp_projects(c, pitems, i, cleaned_projects) ==
  IF ~Ok(c) THEN c
  ELSE IF i > Len(pitems) THEN Alloc(c, Map(cleaned_projects))
  ELSE IF StartsWith(pitems[i].k, WSL_PREFIX)
  THEN basic_cp_projects(py_print(c, MSG_WSL \o pitems[i].k), pitems, i + 1, cleaned_projects)
  ELSE basic_cp_projects_put(basic_cp_config(c, pitems[i].x), pitems, i, cleaned_projects)

basic_cp_projects_put(e, pitems, i, cleaned_projects) ==
  basic_cp_projects(e, pitems, i + 1, Append(cleaned_projects, Item(pitems[i].k, e.r)))

basic_clean_projects(c, projects) ==
  IF ~IsDict(c.h, projects) THEN Raise(c, "AttributeError")
  ELSE basic_cp_projects(c, c.h[projects.v].v, 1, <<>>)

\* optimized['projects'] = clean_projects(optimized['projects']); return optimized
basic_oc_assign(p, optimized) ==
  IF Ok(p) THEN Return(SetItem(p, optimized.v, K_projects, p.r), optimized) ELSE p

\* if 'projects' in optimized: ...
basic_oc_projects(o) ==
  IF ~InTest(o.h, o.r, K_projects) THEN o
  ELSE IF ~IsDict(o.h, o.r) THEN Raise(o, "TypeError")
  ELSE basic_oc_assign(basic_clean_projects(o, DictGet(o.h[o.r.v].v, K_projects)), o.r)

\* optimized = config.copy() is a shallow copy; only dict and list have copy()
basic_optimize_config(c, config) ==
  IF config.t # "ref" THEN Raise(c, "AttributeError")
  ELSE basic_oc_projects(Alloc(c, c.h[config.v]))

(* ------------------------------------------------------------------ *)
(* claude_optimizer_secure.py: load_json_file, analyze_projects, files  *)
(* ------------------------------------------------------------------ *)
\* the paths of main
input_file == "/home/dtaylor/.claude.json"
output_file == "/home/dtaylor/.claude.json.optimized"

K_env == <<"e", "n", "v">>

\* a file: absent, or holding a JSON document (doc), or holding something else
File(kind, doc) == [kind |-> kind, doc |-> doc]

\* how load_json_file ends on a file: FileNotFoundError and JSONDecodeError are caught and
\* turned into sys.exit(1), any other error of open() or of decoding is not caught
load_json_file(file) ==
  CASE file.kind \in {"missing", "malformed"} -> "SystemExit"
    [] file.kind = "unreadable" -> "PermissionError"
    [] file.kind = "json" -> "none"

\* the first exception of a sequence of outcomes
FirstErr(errs) ==
  IF \A i \in 1..Len(errs) : errs[i] = "none" THEN "none"
  ELSE errs[CHOOSE i \in 1..Len(errs) : errs[i] # "none" /\ \A k \in 1..(i - 1) : errs[k] = "none"]

\* len(history) and entry.get('pastedContents', {}) for entry in history
ap_history(h, history) ==
  IF ~Iterable(h, history) THEN "TypeError"
  ELSE IF \A i \in 1..Len(Iter(h, history)) : IsDict(h, Iter(h, history)[i]) THEN "none"
  ELSE "AttributeError"

\* if 'env' in server_config: for ... in server_config['env'].items()
ap_server(h, server_config) ==
  IF ~Iterable(h, server_config) THEN "TypeError"
  ELSE IF ~InTest(h, server_config, K_env) THEN "none"
  ELSE IF ~IsDict(h, server_config) THEN "TypeError"
  ELSE IF ~IsDict(h, DictGet(h[server_config.v].v, K_env)) THEN "AttributeError"
  ELSE "none"

\* for server_name, server_config in config['mcpServers'].items()
ap_servers(h, servers) ==
  IF ~IsDict(h, servers) THEN "AttributeError"
  ELSE FirstErr([k \in 1..Len(h[servers.v].v) |-> ap_server(h, h[servers.v].v[k].x)])

\* the body of the loop over the projects, for one project configuration
ap_project(h, config) ==
  IF ~IsDict(h, config) THEN "AttributeError"
  ELSE FirstErr(<< IF DictHas(h[config.v].v, K_history)
                   THEN ap_history(h, DictGet(h[config.v].v, K_history)) ELSE "none",
                   IF DictHas(h[config.v].v, K_mcpServers)
                   THEN ap_servers(h, DictGet(h[config.v].v, K_mcpServers)) ELSE "none" >>)

\* how analyze_projects ends: it reads the projects, builds a report of its own and changes
\* nothing else, so only the exception it raises, or "none", matters to its caller
analyze_projects(h, projects) ==
  IF ~Iterable(h, projects) THEN "TypeError"
  ELSE IF ~IsDict(h, projects) THEN "AttributeError"
  ELSE FirstErr([p \in 1..Len(h[projects.v].v) |-> ap_project(h, h[projects.v].v[p].x)])

(* ------------------------------------------------------------------ *)
(* Input documents                                                      *)
(* ------------------------------------------------------------------ *)
Body(ch, n) == [i \in 1..n |-> ch]
TokA == GHP \o Body("a", TokenBodyLen)
TokB == GHP \o Body("B", TokenBodyLen - 1) \o <<"7">>

\* all sequences over S of length at most n
RECURSIVE SeqsUpTo(_, _)
SeqsUpTo(S, n) ==
  IF n = 0 THEN {<<>>}
  ELSE LET shorter == SeqsUpTo(S, n - 1)
       IN shorter \cup {Append(q, x) : q \in {p \in shorter : Len(p) = n - 1}, x \in S}

Texts ==
  { <<>>, <<"a">>, <<"a", "b", "c">>, <<" ", "a", " ">>, <<"s", "h", "o", "r", "t">>,
    Body("x", SliceLen), Body("x", SliceLen + 1),
    TokA, TokB,
    <<"s", "e", "e", " ">> \o TokA \o <<" ", "n", "o", "w">>,
    GHP \o TokA, TokA \o TokB, TokA \o <<"z", "9">>, TokA \o <<" ">> \o TokB,
    GHP \o Body("a", TokenBodyLen - 1),
    GHP \o Body("a", TokenBodyLen - 1) \o <<"-", "a">>,
    PLACEHOLDER \o <<" ">> \o TokB, K_projects }

ScalarDocs ==
  {Str(s) : s \in Texts} \cup
  { Num(0), Num(15), Null, Bool(TRUE), Bool(FALSE), List(<<>>), List(<<Str(K_projects)>>),
    List(<<Str(TokA), Num(3)>>), Map(<<>>),
    List(<<Str(<<"a", "b", "c">>), Str(<<"s", "e", "e", " ">> \o TokA \o <<" ", "n", "o", "w">>),
           Str(TokA \o TokB), Str(GHP \o Body("a", TokenBodyLen - 1))>>) }

KeyNames ==
  { GITHUB_PERSONAL_ACCESS_TOKEN, <<"G", "i", "t", "H", "u", "b", "_", "T", "o", "k", "e", "n">>,
    <<"g", "i", "t", "h", "u", "b", "T", "o", "k", "e", "n">>, K_password, <<"a", "p", "i", "_", "K", "E", "Y">>,
    <<"a", "u", "t", "h", "o", "r">>, <<"n", "a", "m", "e">>, K_display }

KeyValues ==
  { Str(<<>>), Str(<<"s", "h", "o", "r", "t">>), Str(Body("x", SliceLen)), Str(Body("x", SliceLen + 1)),
    Str(TokA), Num(7), Null, Bool(TRUE), List(<<Str(<<"s">>), Num(1)>>), List(<<Str(TokA)>>),
    Map(<<>>), Map(<<Item(K_password, Str(<<"p", "w">>))>>) }

KeyDocs ==
  {Map(<<Item(key, x)>>) : key \in KeyNames, x \in KeyValues} \cup
  {Map(<<Item(<<"e", "n", "v">>, Map(<<Item(<<"n", "a", "m", "e">>, Str(<<"a", "b", "c">>)), Item(key, x)>>))>>)
     : key \in KeyNames, x \in KeyValues} \cup
  {List(<<Map(<<Item(key, x)>>)>>) : key \in KeyNames, x \in KeyValues}

ProjectsDoc(projects) == Map(<<Item(<<"n", "u", "m">>, Num(1)), Item(K_projects, projects)>>)
HomeY == <<"/", "h", "o", "m", "e", "/", "u", "/", "y">>
MntX == <<"/", "m", "n", "t", "/", "c", "/", "x">>
HomeZ == <<"/", "h", "o", "m", "e", "/", "z">>

Entry(display) == Map(<<Item(K_display, display), Item(<<"n">>, Num(1))>>)
HistEntries ==
  {Entry(Str(d)) : d \in {<<>>, <<"a">>, <<"a", "b", "c">>, <<"A", "B", "C">>, TokA, TokB}} \cup {Map(<<>>)}

HistoryDocs ==
  {ProjectsDoc(Map(<<Item(HomeY, Map(<<Item(K_history, List(es))>>))>>)) : es \in SeqsUpTo(HistEntries, MaxHist)}

\* the example of the specification
ExampleDoc ==
  Map(<<Item(K_projects,
             Map(<<Item(MntX, Map(<<Item(K_history, List(<<>>))>>)),
                   Item(HomeY, Map(<<Item(K_history,
                        List(<<Map(<<Item(K_display, Str(<<"a">>))>>), Map(<<Item(K_display, Str(<<"a">>))>>),
                               Map(<<Item(K_display, Str(<<>>))>>)>>))>>))>>))>>)

OddHistoryDocs ==
  {ProjectsDoc(Map(<<Item(HomeY, Map(<<Item(K_history, x)>>))>>))
     : x \in { Null, Num(2), Str(<<>>), Str(<<"a">>), Map(<<>>), List(<<Num(1)>>), List(<<Entry(Num(5))>>),
               List(<<Entry(Null)>>), List(<<Entry(Num(0))>>), List(<<Entry(Str(<<" ", "a", "b", " ">>))>>),
               List(<<Entry(Str(<<"a", "b", "c">>)), Entry(Str(<<"a", "b", "c", " ">>))>>),
               List(<<Map(<<Item(K_display, Str(<<"a", "b", "c">>)), Item(GITHUB_PERSONAL_ACCESS_TOKEN, Num(1))>>)>>),
               List(<<Map(<<Item(K_display, Str(<<"a", "b", "c">>)), Item(GITHUB_PERSONAL_ACCESS_TOKEN, Str(TokA))>>)>>) }} \cup
  { ProjectsDoc(Map(<<Item(HomeY, Map(<<Item(K_history, List(<<Entry(Str(<<"a", "b", "c">>))>>))>>)),
                      Item(HomeZ, Map(<<Item(K_history, List(<<Entry(Str(<<"a", "b", "c">>)), Entry(Str(<<"A", "B", "C">>))>>))>>))>>)),
    ExampleDoc }

PathNames ==
  << MntX, HomeY, <<"/", "m", "n", "t", "/", "c">>, <<"/", "m", "n", "t", "/", "c", "c", "/", "z">>,
     <<"m", "n", "t", "/", "c", "/", "x">>, <<"/", "M", "N", "T", "/", "C", "/", "x">>, WSL_PREFIX >>

PathDocs ==
  {ProjectsDoc(Map(SelectSeq([i \in 1..Len(PathNames) |-> Item(PathNames[i], Map(<<Item(<<"i">>, Num(i))>>))],
                             LAMBDA it : it.x.v[1].x.v \in S)))
     : S \in SUBSET (1..Len(PathNames))} \cup
  {ProjectsDoc(x) : x \in {Null, Num(3), Str(<<"a">>), List(<<>>), List(<<Map(<<>>)>>)}} \cup
  {ProjectsDoc(Map(<<Item(HomeY, x)>>)) : x \in {Null, Num(3), Str(<<"a">>), List(<<>>)}}

ArgValues ==
  { Str(<<"n", "p", "x">>), Str(<<"-", "y">>), Str(<<"/", "m", "n", "t", "/", "c", "/", "a">>),
    Str(<<"/", "h", "o", "m", "e", "/", "p">>) }

ServersDoc(servers) == ProjectsDoc(Map(<<Item(HomeY, Map(<<Item(K_mcpServers, servers)>>))>>))

ServerDocs ==
  {ServersDoc(Map(<<Item(name, Map(<<Item(<<"c">>, Str(<<"n">>)), Item(K_args, List(args))>>))>>))
     : name \in {K_filesystem, K_github}, args \in SeqsUpTo(ArgValues, MaxArgs)} \cup
  {ServersDoc(Map(<<Item(name, x)>>))
     : name \in {K_filesystem, K_github},
       x \in { Null, Num(1), Str(K_args), Str(<<"a">>), List(<<Str(K_args)>>), List(<<>>), Map(<<>>),
               Map(<<Item(K_args, Null)>>), Map(<<Item(K_args, Str(<<"/", "m">>))>>),
               Map(<<Item(K_args, List(<<Num(1), Str(WSL_PREFIX), Str(TokA)>>))>>),
               Map(<<Item(K_args, Map(<<Item(WSL_PREFIX, Num(1))>>))>>),
               Map(<<Item(K_args, List(<<Str(<<"n", "p", "x">>), Str(<<"/", "m", "n", "t", "/", "c", "/", "a">>)>>)),
                     Item(<<"e", "n", "v">>, Map(<<Item(GITHUB_PERSONAL_ACCESS_TOKEN, Str(TokA))>>))>>) }} \cup
  {ServersDoc(x) : x \in {Null, List(<<>>), Str(<<"a">>), Map(<<>>)}}

Docs == ScalarDocs \cup KeyDocs \cup HistoryDocs \cup OddHistoryDocs \cup PathDocs \cup ServerDocs

(* ------------------------------------------------------------------ *)
(* State                                                                *)
(* ------------------------------------------------------------------ *)
VARIABLES
  heap,      \* the dict and list objects, by address
  config,    \* the loaded document
  input,     \* the document as it was loaded (a tree)
  pc,        \* "loaded", "returned" or "raised"; in a run of main "start", "main_loaded",
             \* "main_analyzed", "main_optimized", "done", "exited", "crashed" or "write_failed"
  call,      \* the function that was called
  arg,       \* its argument
  result,    \* the value it returned
  log,       \* the lines remove_sensitive_data, clean_projects and optimize_config printed
  err,       \* the exception it raised, or "none"
  first,     \* what the first call returned (a tree), once its result is passed to a second call
  fs         \* the files at input_file and output_file

vars == <<heap, config, input, pc, call, arg, result, log, err, first, fs>>

Init ==
  \E doc \in Docs :
    LET s == Store(<<>>, doc)
    IN /\ heap = s.h
       /\ config = s.r
       /\ input = doc
       /\ pc = "loaded"
       /\ call = "none"
       /\ arg = Null
       /\ result = Null
       /\ log = <<>>
       /\ err = "none"
       /\ first = Null
       /\ fs = [p \in {input_file, output_file} |->
                 IF p = input_file THEN File("json", doc) ELSE File("absent", Null)]

\* the outcome c of calling function name on argument x
Outcome(name, x, c) ==
  /\ heap' = c.h
  /\ log' = c.log
  /\ err' = c.err
  /\ result' = c.r
  /\ pc' = IF Ok(c) THEN "returned" ELSE "raised"
  /\ call' = name
  /\ arg' = x
  /\ UNCHANGED <<config, input, fs>>

\* a call on the loaded document or on a part of it
Finish(name, x, c) == Outcome(name, x, c) /\ UNCHANGED first

HasProjects == IsDict(heap, config) /\ DictHas(heap[config.v].v, K_projects)
ProjectsArg == DictGet(heap[config.v].v, K_projects)

CallRemoveSensitiveData ==
  /\ pc = "loaded"
  /\ Finish("remove_sensitive_data", config, remove_sensitive_data(Ctx(heap, log), config))

CallCleanProjects ==
  /\ pc = "loaded"
  /\ HasProjects
  /\ Finish("clean_projects", ProjectsArg, clean_projects(Ctx(heap, log), ProjectsArg))

CallOptimizeConfig ==
  /\ pc = "loaded"
  /\ Finish("optimize_config", config, optimize_config(Ctx(heap, log), config))

CallBasicCleanProjects ==
  /\ pc = "loaded"
  /\ HasProjects
  /\ Finish("basic_clean_projects", ProjectsArg, basic_clean_projects(Ctx(heap, log), ProjectsArg))

CallBasicOptimizeConfig ==
  /\ pc = "loaded"
  /\ Finish("basic_optimize_config", config, basic_optimize_config(Ctx(heap, log), config))

\* optimize_config(optimize_config(config)): the document the first call returned is the
\* argument of a second call
CallOptimizeConfigAgain ==
  /\ pc = "returned"
  /\ call = "optimize_config"
  /\ first' = Tree(heap, result)
  /\ Outcome("optimize_config_again", result, optimize_config(Ctx(heap, log), result))

Next ==
  \/ CallRemoveSensitiveData
  \/ CallCleanProjects
  \/ CallOptimizeConfig
  \/ CallBasicCleanProjects
  \/ CallBasicOptimizeConfig
  \/ CallOptimizeConfigAgain

Spec == Init /\ [][Next]_vars

(* ------------------------------------------------------------------ *)
(* A run of main of claude_optimizer_secure.py                          *)
(* ------------------------------------------------------------------ *)
\* what the input path can hold when main starts
InputFiles ==
  {File("missing", Null), File("malformed", Null), File("unreadable", Null)} \cup
  {File("json", doc) : doc \in Docs}

\* what the output path can hold when main starts: nothing, or the output of an earlier run
OutputFiles == {File("absent", Null), File("old", Null)}

InitMain ==
  /\ \E inf \in InputFiles, outf \in OutputFiles :
       fs = [p \in {input_file, output_file} |-> IF p = input_file THEN inf ELSE outf]
  /\ heap = <<>>
  /\ config = Null
  /\ input = Null
  /\ pc = "start"
  /\ call = "none"
  /\ arg = Null
  /\ result = Null
  /\ log = <<>>
  /\ err = "none"
  /\ first = Null

\* the run ends on an exception that nothing catches, or on sys.exit(1)
MainFails(e) ==
  /\ pc' = IF e = "SystemExit" THEN "exited" ELSE "crashed"
  /\ err' = e
  /\ UNCHANGED <<heap, config, input, call, arg, result, log, first, fs>>

\* config = <the document s stored on the heap>
MainLoaded(s, doc) ==
  /\ heap' = s.h
  /\ config' = s.r
  /\ input' = doc
  /\ pc' = "main_loaded"
  /\ UNCHANGED <<call, arg, result, log, err, first, fs>>

\* config = load_json_file(input_file)
MainLoad ==
  /\ pc = "start"
  /\ IF load_json_file(fs[input_file]) = "none"
     THEN MainLoaded(Store(<<>>, fs[input_file].doc), fs[input_file].doc)
     ELSE MainFails(load_json_file(fs[input_file]))

\* how "if 'projects' in config: analysis = analyze_projects(config['projects'])" ends
main_analysis(h, cfg) ==
  IF ~Iterable(h, cfg) THEN "TypeError"
  ELSE IF ~InTest(h, cfg, K_projects) THEN "none"
  ELSE IF ~IsDict(h, cfg) THEN "TypeError"
  ELSE analyze_projects(h, DictGet(h[cfg.v].v, K_projects))

\* the analysis and its report
MainAnalyze ==
  /\ pc = "main_loaded"
  /\ IF main_analysis(heap, config) = "none"
     THEN pc' = "main_analyzed" /\ UNCHANGED <<heap, config, input, call, arg, result, log, err, first, fs>>
     ELSE MainFails(main_analysis(heap, config))

\* optimized_config = <the outcome c of optimize_config(config)>
MainOptimized(c) ==
  /\ heap' = c.h
  /\ log' = c.log
  /\ err' = c.err
  /\ result' = c.r
  /\ pc' = IF Ok(c) THEN "main_optimized" ELSE "crashed"
  /\ call' = "optimize_config"
  /\ arg' = config
  /\ UNCHANGED <<config, input, first, fs>>

\* optimized_config = optimize_config(config)
MainOptimize ==
  /\ pc = "main_analyzed"
  /\ MainOptimized(optimize_config(Ctx(heap, log), config))

\* a main that opens and writes the output file as soon as the input is loaded, before the
\* document is transformed
MainWrite_BeforeOptimize ==
  /\ pc = "main_loaded"
  /\ pc' = "done"
  /\ fs' = [fs EXCEPT ![output_file] = File("json", Tree(heap, config))]
  /\ UNCHANGED <<heap, config, input, call, arg, result, log, err, first>>

\* the sizes are reported, then: with open(output_file, 'w') as f: json.dump(optimized_config, f).
\* open() can fail and leave the path as it was; it truncates the file when it succeeds, and
\* a write can fail after that; otherwise the file holds the optimized document
MainWrite ==
  /\ pc = "main_optimized"
  /\ \/ /\ pc' = "write_failed"
        /\ err' = "OSError"
        /\ UNCHANGED fs
     \/ /\ pc' = "write_failed"
        /\ err' = "OSError"
        /\ fs' = [fs EXCEPT ![output_file] = File("partial", Null)]
     \/ /\ pc' = "done"
        /\ err' = "none"
        /\ fs' = [fs EXCEPT ![output_file] = File("json", Tree(heap, result))]
  /\ UNCHANGED <<heap, config, input, call, arg, result, log, first>>

NextMain ==
  \/ MainLoad
  \/ MainAnalyze
  \/ MainOptimize
  \/ MainWrite

SpecMain == InitMain /\ [][NextMain]_vars

(* ------------------------------------------------------------------ *)
(* Vocabulary of the properties (over trees)                            *)
(* ------------------------------------------------------------------ *)
THas(tree, key) == tree.t = "map" /\ DictHas(tree.v, key)
TGet(tree, key) == DictGet(tree.v, key)

\* the path starts with /mnt/c/
LegacyPath(s) ==
  /\ Len(s) >= 7
  /\ s[1] = "/" /\ s[2] = "m" /\ s[3] = "n" /\ s[4] = "t" /\ s[5] = "/" /\ s[6] = "c" /\ s[7] = "/"

\* what remove_sensitive_data makes of a tree
RedactedTree(tree) ==
  LET s == Store(<<>>, tree)
      d == remove_sensitive_data(Ctx(s.h, <<>>), s.r)
  IN Tree(d.h, d.r)

Returned(name) == call = name /\ pc = "returned"
InputProjects == TGet(input, K_projects)
ResultTree == Tree(heap, result)

\* the history entries of a project configuration (a tree), none when absent
HistoryOf(cfg) == IF THas(cfg, K_history) THEN TGet(cfg, K_history).v ELSE <<>>
DisplayIn(entry) == IF THas(entry, K_display) THEN TGet(entry, K_display) ELSE Str(<<>>)

(* ------------------------------------------------------------------ *)
(* Properties                                                           *)
(* ------------------------------------------------------------------ *)

\* C1: optimize_config of claude_optimizer_secure.py never mutates its argument: after the
\* call, whether it returned or raised, the loaded document has the content it had before,
\* and a returned result shares no dict or list object with it (it is a new tree).
C1_InputNotMutated ==
  call = "optimize_config" =>
    /\ Tree(heap, config) = input
    /\ pc = "returned" => Reach(heap, result) \cap Reach(heap, config) = {}

\* a call of optimize_config that dropped a legacy project, cleaned the arguments of a
\* server and returned a document different from its input
C1_Witness ==
  /\ Returned("optimize_config")
  /\ ResultTree # input
  /\ THas(ResultTree, K_projects) /\ THas(TGet(ResultTree, K_projects), HomeY)
  /\ \E i \in 1..Len(log) : StartsWith(log[i], MSG_MCP)
  /\ Reach(heap, config) # {}

\* no mapping of the tree, at any depth, has a sensitive-named key with a string value
RECURSIVE NoSensitiveStringKey(_)
NoSensitiveStringKey(tree) ==
  IF tree.t = "map"
  THEN \A i \in 1..Len(tree.v) :
         /\ ~(IsSensitiveName(tree.v[i].k) /\ tree.v[i].x.t = "str")
         /\ NoSensitiveStringKey(tree.v[i].x)
  ELSE IF tree.t = "list" THEN \A i \in 1..Len(tree.v) : NoSensitiveStringKey(tree.v[i])
  ELSE TRUE

\* C2: in every mapping, at every depth, of what remove_sensitive_data returns, no key with
\* a sensitive name (token, secret, key, password, auth in its lowercased name) keeps a
\* string value: every such pair is dropped.
C2_NoSensitiveStringKey == Returned("remove_sensitive_data") => NoSensitiveStringKey(ResultTree)

\* position j of s starts ghp_ followed by 36 alphanumeric characters
TokenAt(s, j) ==
  /\ j + 39 <= Len(s)
  /\ s[j] = "g" /\ s[j + 1] = "h" /\ s[j + 2] = "p" /\ s[j + 3] = "_"
  /\ \A k \in 4..39 : s[j + k] \in Alnum
HasToken(s) == \E j \in 1..Len(s) : TokenAt(s, j)

\* out is inp with some credential tokens replaced by the placeholder and all other
\* characters kept, in order
RECURSIVE Aligned(_, _, _, _)
Aligned(out, i, inp, j) ==
  IF i > Len(out) THEN j > Len(inp)
  ELSE \/ /\ i + 21 <= Len(out)
          /\ SubSeq(out, i, i + 21) = PLACEHOLDER
          /\ TokenAt(inp, j)
          /\ Aligned(out, i + 22, inp, j + 40)
       \/ /\ j <= Len(inp)
          /\ out[i] = inp[j]
          /\ Aligned(out, i + 1, inp, j + 1)

\* out is what the claim says of the sanitized string node inp
StringSanitized(out, inp) ==
  /\ out.t = "str"
  /\ Aligned(out.v, 1, inp.v, 1)
  /\ ~HasToken(inp.v) => out = inp
  /\ ~HasToken(out.v)
  /\ RedactedTree(out) = out

\* C3: for a string node (the document itself, or an element of a list) remove_sensitive_data
\* returns the string with every credential token replaced by [GITHUB_TOKEN_REMOVED] and
\* the surrounding text unchanged; a string without a token is returned unchanged; the
\* returned string contains no token, and applying remove_sensitive_data to it again
\* returns it unchanged.
C3_TokensReplaced ==
  Returned("remove_sensitive_data") =>
    /\ input.t = "str" => StringSanitized(result, input)
    /\ input.t = "list" =>
         /\ Len(ResultTree.v) = Len(input.v)
         /\ \A i \in 1..Len(input.v) :
              input.v[i].t = "str" => StringSanitized(ResultTree.v[i], input.v[i])

\* a string with two tokens and text around them was sanitized
C3_Witness ==
  /\ Returned("remove_sensitive_data")
  /\ input.t = "str"
  /\ \E j \in 1..Len(input.v) : TokenAt(input.v, j) /\ \E k \in (j + 40)..Len(input.v) : TokenAt(input.v, k)
  /\ Len(result.v) > 2 * Len(PLACEHOLDER)
  /\ result # input

\* the i-th smallest element of a set of numbers
Nth(S, i) == CHOOSE x \in S : Cardinality({y \in S : y < x}) = i - 1

\* out is made of the redacted copies of some entries of inp, in their order, each one
\* the first entry of inp with its display
FirstOccurrences(out, inp) ==
  \E S \in SUBSET (1..Len(inp)) :
    /\ Cardinality(S) = Len(out)
    /\ \A i \in 1..Len(out) :
         /\ out[i] = RedactedTree(inp[Nth(S, i)])
         /\ \A k \in 1..(Nth(S, i) - 1) : DisplayIn(inp[k]) # DisplayIn(inp[Nth(S, i)])

DistinctDisplays(out) ==
  \A i, j \in 1..Len(out) : i # j => DisplayIn(out[i]) # DisplayIn(out[j])

\* C4 as claimed: every history returned by clean_projects (secure) has no two entries
\* with equal display and is a subsequence of the input history, first occurrences winning.
C4_NoEqualDisplays ==
  Returned("clean_projects") =>
    \A p \in 1..Len(ResultTree.v) :
      /\ DistinctDisplays(HistoryOf(ResultTree.v[p].x))
      /\ FirstOccurrences(HistoryOf(ResultTree.v[p].x),
                          HistoryOf(TGet(InputProjects, ResultTree.v[p].k)))

\* C4 amended: every history returned by clean_projects (secure) holds the redacted copies
\* of input entries in their input order, each the first input entry with its display, so
\* no two returned entries come from input entries with equal display; the returned
\* displays are pairwise different whenever no input display contains a credential token.
C4_FirstOccurrencesInOrder ==
  Returned("clean_projects") =>
    \A p \in 1..Len(ResultTree.v) :
      LET out == HistoryOf(ResultTree.v[p].x)
          inp == HistoryOf(TGet(InputProjects, ResultTree.v[p].k))
      IN /\ FirstOccurrences(out, inp)
         /\ (\A k \in 1..Len(inp) : DisplayIn(inp[k]).t = "str" => ~HasToken(DisplayIn(inp[k]).v))
              => DistinctDisplays(out)

\* a history with a repeated display and two different displays was cleaned
C4_Witness ==
  /\ Returned("clean_projects")
  /\ \E p \in 1..Len(ResultTree.v) :
       LET out == HistoryOf(ResultTree.v[p].x)
           inp == HistoryOf(TGet(InputProjects, ResultTree.v[p].k))
       IN /\ Len(out) = 2
          /\ Len(inp) = 3
          /\ DisplayIn(inp[1]) = DisplayIn(inp[3])
          /\ DisplayIn(out[1]) # DisplayIn(out[2])

\* C5: the keys of the mapping clean_projects returns (either optimizer) are exactly the
\* input keys that do not start with /mnt/c/.
C5_KeysAreNonLegacy ==
  (call \in {"clean_projects", "basic_clean_projects"} /\ pc = "returned") =>
    LET kept == {i \in 1..Len(InputProjects.v) : ~LegacyPath(InputProjects.v[i].k)}
    IN /\ {ResultTree.v[i].k : i \in 1..Len(ResultTree.v)} = {InputProjects.v[i].k : i \in kept}
       /\ Len(ResultTree.v) = Cardinality(kept)

\* projects with legacy keys, with keys that only resemble the prefix, and others
C5_Witness ==
  /\ Returned("clean_projects")
  /\ Len(ResultTree.v) >= 4
  /\ Len(InputProjects.v) >= Len(ResultTree.v) + 2

\* the args the sanitized server must have, given the redacted input args
FilteredArgs(orig) == SelectSeq(orig, LAMBDA x : ~(x.t = "str" /\ LegacyPath(x.v)))
WithPaths(filtered) ==
  (IF Len(filtered) >= 2 THEN SubSeq(filtered, 1, 2) ELSE filtered)
    \o [i \in 1..Len(linux_paths) |-> Str(linux_paths[i])]
ArgsAsClaimed(name, orig) ==
  IF name = K_filesystem /\ Len(FilteredArgs(orig)) # Len(orig)
  THEN WithPaths(FilteredArgs(orig)) ELSE FilteredArgs(orig)
ArgsAsAmended(name, orig) ==
  IF name = K_filesystem /\ FilteredArgs(orig) # <<>>
  THEN WithPaths(FilteredArgs(orig)) ELSE FilteredArgs(orig)

\* every server with an args list, of every surviving project, has the args Expected gives
ServerArgsAre(Expected(_, _)) ==
  Returned("clean_projects") =>
    \A p \in 1..Len(ResultTree.v) :
      LET cfg == TGet(InputProjects, ResultTree.v[p].k)
      IN THas(cfg, K_mcpServers) =>
           \A n \in 1..Len(TGet(cfg, K_mcpServers).v) :
             LET name == TGet(cfg, K_mcpServers).v[n].k
                 sc == TGet(cfg, K_mcpServers).v[n].x
             IN (THas(sc, K_args) /\ TGet(sc, K_args).t = "list") =>
                  TGet(TGet(TGet(ResultTree.v[p].x, K_mcpServers), name), K_args)
                    = List(Expected(name, RedactedTree(TGet(sc, K_args)).v))

\* C6 as claimed: clean_projects (secure) removes every argument starting with /mnt/c/ and
\* appends the replacement paths exactly when the server is named filesystem and the
\* filtered args differ in length from the original args.
C6_AppendsWhenLengthDiffers == ServerArgsAre(ArgsAsClaimed)

\* C6 amended: clean_projects (secure) removes every argument starting with /mnt/c/ and
\* appends the replacement paths exactly when the server is named filesystem and at least
\* one argument remains after filtering, whether or not an argument was removed: the result
\* is the first two remaining arguments followed by the replacement paths if at least two
\* remain, otherwise whatever remains followed by the replacement paths; in every other
\* case the args are the filtered arguments.
C6_AppendsWhenArgsRemain == ServerArgsAre(ArgsAsAmended)

\* a filesystem server lost a legacy argument and kept three others
C6_Witness ==
  /\ Returned("clean_projects")
  /\ THas(InputProjects, HomeY) /\ THas(TGet(InputProjects, HomeY), K_mcpServers)
  /\ THas(TGet(TGet(InputProjects, HomeY), K_mcpServers), K_filesystem)
  /\ LET sc == TGet(TGet(TGet(InputProjects, HomeY), K_mcpServers), K_filesystem)
     IN /\ THas(sc, K_args) /\ TGet(sc, K_args).t = "list"
        /\ Len(TGet(sc, K_args).v) = 4
        /\ Len(FilteredArgs(TGet(sc, K_args).v)) = 3
        /\ Len(TGet(TGet(TGet(TGet(ResultTree, HomeY), K_mcpServers), K_filesystem), K_args).v)
             = 2 + Len(linux_paths)

ExampleResult(history) ==
  Map(<<Item(K_projects, Map(<<Item(HomeY, Map(<<Item(K_history, List(history))>>))>>))>>)

\* C7 as claimed: for the example document the sanitized output has the one project
\* /home/u/y and its history has exactly one entry, with display "a".
C7_ExampleKeepsOneEntry ==
  (input = ExampleDoc /\ call \in {"optimize_config", "basic_optimize_config"}) =>
    /\ pc = "returned"
    /\ ResultTree = ExampleResult(<<Map(<<Item(K_display, Str(<<"a">>))>>)>>)

\* C7 amended: for the example document the sanitized output has the one project
\* /home/u/y and its history is empty: the display "a" is shorter than three characters.
C7_ExampleKeepsNoEntry ==
  (input = ExampleDoc /\ call \in {"optimize_config", "basic_optimize_config"}) =>
    /\ pc = "returned"
    /\ ResultTree = ExampleResult(<<>>)

C7_Witness ==
  /\ input = ExampleDoc
  /\ Returned("optimize_config")
  /\ Len(TGet(ResultTree, K_projects).v) = 1

\* C8: when the document is not a mapping at top level, or its projects value is not a
\* mapping, optimize_config (secure) fails and returns no document.
C8_MalformedInputFails ==
  (call = "optimize_config"
     /\ (input.t # "map" \/ (THas(input, K_projects) /\ TGet(input, K_projects).t # "map")))
    => pc = "raised"

\* C9: a key with a sensitive name whose value is not a string is skipped by the key-name
\* rule of remove_sensitive_data: no error, the key is kept, its value sanitized.
C9_NonStringValueKept ==
  (call = "remove_sensitive_data" /\ input.t = "map" /\ Len(input.v) = 1
     /\ IsSensitiveName(input.v[1].k) /\ input.v[1].x.t # "str") =>
    /\ pc = "returned"
    /\ ResultTree = Map(<<Item(input.v[1].k, RedactedTree(input.v[1].x))>>)

\* C10: a key dropped by remove_sensitive_data is reported by one line and that line never
\* contains the complete value, whatever the length of the value.
C10_ReportHidesSecret ==
  (Returned("remove_sensitive_data") /\ input.t = "map" /\ Len(input.v) = 1
     /\ input.v[1].x.t = "str" /\ input.v[1].x.v # <<>> /\ ResultTree = Map(<<>>)) =>
    /\ Len(log) = 1
    /\ ~Contains(log[1], input.v[1].x.v)

\* the entries of inp that a per-project, exact-match duplicate test keeps: a string
\* display of at least three characters once stripped, equal to the display of no earlier
\* entry of the same history
Survivors(inp) ==
  {j \in 1..Len(inp) :
     /\ DisplayIn(inp[j]).t = "str"
     /\ Len(Strip(DisplayIn(inp[j]).v)) >= MinDisplayLen
     /\ \A k \in 1..(j - 1) : DisplayIn(inp[k]) # DisplayIn(inp[j])}

\* C12: duplicate detection in clean_projects (either optimizer) is per project and
\* case-sensitive: an entry with a long enough display survives exactly when no earlier
\* entry of the same project has the identical display, so an equal display in another
\* project, or a display that differs in letter case or surrounding whitespace, never
\* drops it.
C12_DedupePerProjectExact ==
  (call \in {"clean_projects", "basic_clean_projects"} /\ pc = "returned") =>
    \A p \in 1..Len(ResultTree.v) :
      LET out == HistoryOf(ResultTree.v[p].x)
          inp == HistoryOf(TGet(InputProjects, ResultTree.v[p].k))
      IN (THas(TGet(InputProjects, ResultTree.v[p].k), K_history)
            /\ TGet(TGet(InputProjects, ResultTree.v[p].k), K_history).t = "list") =>
           LET kept == Survivors(inp)
           IN /\ Len(out) = Cardinality(kept)
              /\ \A i \in 1..Len(out) :
                   out[i] = IF call = "clean_projects" THEN RedactedTree(inp[Nth(kept, i)])
                            ELSE inp[Nth(kept, i)]

\* two projects whose histories both hold the display abc were cleaned, the second one
\* holding ABC as well: all three entries survived
C12_Witness ==
  /\ Returned("clean_projects")
  /\ THas(ResultTree, HomeY) /\ THas(ResultTree, HomeZ)
  /\ Len(HistoryOf(TGet(ResultTree, HomeY))) = 1
  /\ Len(HistoryOf(TGet(ResultTree, HomeZ))) = 2
  /\ DisplayIn(HistoryOf(TGet(ResultTree, HomeY))[1]) = DisplayIn(HistoryOf(TGet(ResultTree, HomeZ))[1])
  /\ Lower(DisplayIn(HistoryOf(TGet(ResultTree, HomeZ))[2]).v) = DisplayIn(HistoryOf(TGet(ResultTree, HomeZ))[1]).v

\* C13: optimize_config of claude_optimizer.py never mutates its argument: after the call
\* the loaded document, its nested server entries and their args lists included, has the
\* content it had before.
C13_BasicInputNotMutated == call = "basic_optimize_config" => Tree(heap, config) = input

\* C14: optimize_config of claude_optimizer_secure.py is idempotent: applied to the document
\* it returned, it returns and the document it returns is equal to its argument.
C14_Idempotent ==
  call = "optimize_config_again" => (pc = "returned" /\ ResultTree = first)

\* C15: optimize_config of claude_optimizer_secure.py redacts the whole document before it
\* cleans the projects, so duplicates are detected on redacted displays: every history of
\* the returned document holds, in their order, the entries of the redacted input history
\* that are the first with their redacted display, and no two of its entries have equal
\* display, even when two input displays were different credential tokens.
C15_RedactedBeforeDedupe ==
  (Returned("optimize_config") /\ THas(ResultTree, K_projects)) =>
    LET redacted == TGet(RedactedTree(input), K_projects)
        projects == TGet(ResultTree, K_projects)
    IN \A p \in 1..Len(projects.v) :
         LET out == HistoryOf(projects.v[p].x)
             raw == TGet(InputProjects, projects.v[p].k)
             cfg == TGet(redacted, projects.v[p].k)
         IN /\ DistinctDisplays(out)
            /\ ~THas(raw, K_history) => out = <<>>
            /\ (THas(raw, K_history) /\ TGet(raw, K_history).t = "list") =>
                 LET kept == Survivors(HistoryOf(cfg))
                 IN /\ Len(out) = Cardinality(kept)
                    /\ \A i \in 1..Len(out) : out[i] = HistoryOf(cfg)[Nth(kept, i)]

\* a history whose displays are two different credential tokens was reduced to one entry,
\* its display the placeholder
C15_Witness ==
  /\ Returned("optimize_config")
  /\ THas(input, K_projects) /\ THas(InputProjects, HomeY)
  /\ LET inp == HistoryOf(TGet(InputProjects, HomeY))
         out == HistoryOf(TGet(TGet(ResultTree, K_projects), HomeY))
     IN /\ Len(inp) = 2
        /\ DisplayIn(inp[1]) = Str(TokA)
        /\ DisplayIn(inp[2]) = Str(TokB)
        /\ Len(out) = 1
        /\ DisplayIn(out[1]) = Str(PLACEHOLDER)

\* main has not written: the output path holds what it held when the run started
OutputUntouched == fs[output_file].kind \in {"absent", "old"}

\* C11: in every run of main of claude_optimizer_secure.py the output file changes only in
\* a step taken after the input was loaded and optimize_config returned; a run that ends
\* because loading, analysing or transforming failed leaves the output path as it was; and
\* no step, a failed write included, changes the input file.
C11_OutputOnlyAfterTransform ==
  /\ [](pc \in {"start", "main_loaded", "main_analyzed", "main_optimized", "exited", "crashed"}
          => OutputUntouched)
  /\ [][ /\ fs'[input_file] = fs[input_file]
         /\ fs'[output_file] # fs[output_file] =>
              (/\ fs[input_file].kind = "json" /\ input = fs[input_file].doc
               /\ call = "optimize_config" /\ err = "none") ]_vars

\* a run that loaded a document, transformed it into a different one and wrote it
C11_Witness ==
  /\ pc = "done"
  /\ fs[input_file].kind = "json"
  /\ fs[output_file].kind = "json"
  /\ fs[output_file].doc # fs[input_file].doc
  /\ fs[output_file].doc = Tree(heap, result)

====
